---------------------------- MODULE Spec2Model ----------------------------
(***************************************************************************)
(* Polling-place simulation (src/pa4/simulate.py).                         *)
(*                                                                         *)
(* Times are whole minutes.  The waiting-time averages are exact ratios    *)
(* [num, den] compared by cross multiplication.  Percentages are tenths    *)
(* (0..10 stands for 0.0..1.0).  Python's None is the value None for a     *)
(* time and NoneWait for an average.                                       *)
(***************************************************************************)
EXTENDS Integers, Sequences, FiniteSets, TLC

(***************************************************************************)
(* Bounds of the model.                                                    *)
(***************************************************************************)
MaxHours == 1
MaxVoters == 3
MaxBooths == 2
MaxSeed == 1
MaxTrials == 3
MaxTarget == 1

(***************************************************************************)
(* Program constants.                                                      *)
(***************************************************************************)
\* simulate.py:94  minutes_open = self.hours_open * 60
MinutesPerHour == 60
\* simulate.py:101 straight_ticket_duration=2 passed to gen_voter_parameters
HardStraightDuration == 2
\* simulate.py:329 find_percent_split_ticket(precinct, target_wait_time, 20, seed)
CmdTrials == 20

None == 0 - 1
NoneWait == [num |-> 0, den |-> 0]

StraightDurations == {2, 3}
Tenths == 0 .. 10

(***************************************************************************)
(* The random module.  The generator is a small full-period congruential   *)
(* generator: a pure function of the seed and of the number of draws.      *)
(***************************************************************************)
\* random.seed(seed): the stream restarts from a state that depends on the
\* seed alone; the state before the call is discarded.
seed_random_omitted(state, seed) == state
seed_random(state, seed) == (21 * seed + 7) % 64

\* random.random(): advance the state and return a draw (here in 0..7).
next_state(state) == (5 * state + 3) % 64
draw(state) == state \div 8

\* random.expovariate(rate) for a positive rate: increasing in the draw,
\* always positive.
expovariate(u) == <<1, 1, 2, 3, 20, 20, 40, 60>>[u + 1]

\* random.random() compared with percent_straight_ticket, in tenths.
uniform_tenths(u) == (10 * u) \div 8

\* util.gen_voter_parameters: the gap, then the selector, then (for a
\* split-ticket voter only) the duration.
gen_voter_parameters(state, percent_straight_ticket, straight_ticket_duration) ==
    LET s1 == next_state(state)
        s2 == next_state(s1)
        s3 == next_state(s2)
        gap == expovariate(draw(s1))
    IN  IF uniform_tenths(draw(s2)) < percent_straight_ticket
        THEN [gap |-> gap, voting_duration |-> straight_ticket_duration,
              straight |-> TRUE, rng |-> s2]
        ELSE [gap |-> gap, voting_duration |-> expovariate(draw(s3)),
              straight |-> FALSE, rng |-> s3]

(***************************************************************************)
(* class Voter                                                             *)
(***************************************************************************)
Voter(arrival_time, voting_duration) ==
    [arrival_time |-> arrival_time, voting_duration |-> voting_duration,
     start_time |-> None, departure_time |-> None]

(***************************************************************************)
(* class VotingBooths: queue.PriorityQueue(maxsize = num_booths), kept as  *)
(* the ascending sequence of the departure times it holds.                 *)
(***************************************************************************)
VotingBooths(num_booths) == [maxsize |-> num_booths, pq |-> <<>>]

\* PriorityQueue.full(): a maxsize of 0 means an unbounded queue.
is_full_early(booths) == 0 < booths.maxsize /\ booths.maxsize <= Len(booths.pq) + 1
is_full(booths) == 0 < booths.maxsize /\ booths.maxsize <= Len(booths.pq)

is_empty(booths) == Len(booths.pq) = 0

RECURSIVE InsertSorted(_, _)
InsertSorted(seq, x) ==
    IF seq = <<>> THEN <<x>>
    ELSE IF x < Head(seq) THEN <<x>> \o seq
    ELSE <<Head(seq)>> \o InsertSorted(Tail(seq), x)

\* add_voter: the voter's times are assigned first, then put(block=False)
\* raises queue.Full on a full queue.
add_voter_nosum(booths, voter, start_time, voting_duration) ==
    LET v == [voter EXCEPT !.start_time = start_time,
                           !.departure_time = start_time]
    IN  IF is_full(booths)
        THEN [booths |-> booths, voter |-> v, err |-> "queue.Full"]
        ELSE [booths |-> [booths EXCEPT !.pq = InsertSorted(@, v.departure_time)],
              voter |-> v, err |-> ""]
add_voter(booths, voter, start_time, voting_duration) ==
    LET v == [voter EXCEPT !.start_time = start_time,
                           !.departure_time = start_time + voting_duration]
    IN  IF is_full(booths)
        THEN [booths |-> booths, voter |-> v, err |-> "queue.Full"]
        ELSE [booths |-> [booths EXCEPT !.pq = InsertSorted(@, v.departure_time)],
              voter |-> v, err |-> ""]

\* remove_voter: get(block=False) returns the smallest entry, or raises
\* queue.Empty.
remove_voter_last(booths) ==
    IF Len(booths.pq) = 0
    THEN [booths |-> booths, departure_time |-> None, err |-> "queue.Empty"]
    ELSE [booths |-> [booths EXCEPT !.pq = SubSeq(@, 1, Len(@) - 1)],
          departure_time |-> booths.pq[Len(booths.pq)], err |-> ""]
remove_voter(booths) ==
    IF is_empty(booths)
    THEN [booths |-> booths, departure_time |-> None, err |-> "queue.Empty"]
    ELSE [booths |-> [booths EXCEPT !.pq = Tail(@)],
          departure_time |-> Head(booths.pq), err |-> ""]

(***************************************************************************)
(* class Precinct                                                          *)
(***************************************************************************)
\* The polls are closed for an arrival at time t.
closed_after(t, minutes_open) == t > minutes_open
closed(t, minutes_open) == t >= minutes_open

\* The state of one call of Precinct.simulate after lines 91-96.
simulate_begin(percent_straight_ticket, straight_ticket_duration, seed, num_booths) ==
    [percent_straight_ticket |-> percent_straight_ticket,
     straight_ticket_duration |-> straight_ticket_duration,
     seed |-> seed, i |-> 0, t |-> 0, voters |-> <<>>,
     booths |-> VotingBooths(num_booths), drawn |-> <<>>]

\* The booth assignment of lines 110-119 for a voter arriving at time t.
assign_booth_nowait(booths, t, voting_duration) ==
    IF ~is_full(booths)
    THEN add_voter(booths, Voter(t, voting_duration), t, voting_duration)
    ELSE add_voter(remove_voter(booths).booths, Voter(t, voting_duration), t,
                   voting_duration)
assign_booth_noremove(booths, t, voting_duration) ==
    add_voter(booths, Voter(t, voting_duration), t, voting_duration)
assign_booth(booths, t, voting_duration) ==
    LET voter == Voter(t, voting_duration)
    IN  IF ~is_full(booths)
        THEN add_voter(booths, voter, t, voting_duration)
        ELSE LET r == remove_voter(booths)
                 latest_departure == r.departure_time
             IN  IF r.err # ""
                 THEN [booths |-> r.booths, voter |-> voter, err |-> r.err]
                 ELSE IF latest_departure > t
                      THEN add_voter(r.booths, voter, latest_departure, voting_duration)
                      ELSE add_voter(r.booths, voter, t, voting_duration)

\* One pass of the for loop of lines 98-119, from generator state rng.
\* next is "loop" (go on), "return" (break, or range exhausted) or "raise".
simulate_iter(s, rng, precinct) ==
    IF s.i >= precinct.max_num_voters
    THEN [sim |-> s, rng |-> rng, next |-> "return", err |-> ""]
    ELSE
    LET g == gen_voter_parameters(rng, s.percent_straight_ticket, HardStraightDuration)
        t == s.t + g.gap
        minutes_open == precinct.hours_open * MinutesPerHour
        s1 == [s EXCEPT !.t = t,
                        !.drawn = Append(@, [gap |-> g.gap,
                                             voting_duration |-> g.voting_duration,
                                             straight |-> g.straight])]
    IN  IF closed(t, minutes_open)
        THEN [sim |-> s1, rng |-> g.rng, next |-> "return", err |-> ""]
        ELSE LET a == assign_booth(s.booths, t, g.voting_duration)
             IN  IF a.err # ""
                 THEN [sim |-> [s1 EXCEPT !.booths = a.booths],
                       rng |-> g.rng, next |-> "raise", err |-> a.err]
                 ELSE [sim |-> [s1 EXCEPT !.booths = a.booths,
                                          !.voters = Append(@, a.voter),
                                          !.i = @ + 1],
                       rng |-> g.rng, next |-> "loop", err |-> ""]

(***************************************************************************)
(* find_avg_wait_time                                                      *)
(***************************************************************************)
RECURSIVE total_wait(_)
total_wait(voters) ==
    IF voters = <<>> THEN 0
    ELSE (Head(voters).start_time - Head(voters).arrival_time)
         + total_wait(Tail(voters))

\* avg_wait = total_wait / max_num_voters (line 231).
trial_average_zero(voters, max_num_voters) ==
    [num |-> 0, den |-> max_num_voters]
trial_average(voters, max_num_voters) ==
    [num |-> total_wait(voters), den |-> max_num_voters]

RatLess(a, b) == a.num * b.den < b.num * a.den
RatEq(a, b) == a.num * b.den = b.num * a.den

RECURSIVE InsertByWait(_, _)
InsertByWait(seq, x) ==
    IF seq = <<>> THEN <<x>>
    ELSE IF RatLess(x, Head(seq)) THEN <<x>> \o seq
    ELSE <<Head(seq)>> \o InsertByWait(Tail(seq), x)

\* sorted(avg_times): ascending and stable.
RECURSIVE sorted(_)
sorted(seq) ==
    IF seq = <<>> THEN <<>>
    ELSE InsertByWait(sorted(SubSeq(seq, 1, Len(seq) - 1)), seq[Len(seq)])

\* sorted_times[ntrials // 2], a zero-based index (line 237).
median_lower(sorted_times, ntrials) == sorted_times[((ntrials - 1) \div 2) + 1]
median(sorted_times, ntrials) == sorted_times[(ntrials \div 2) + 1]

(***************************************************************************)
(* find_percent_split_ticket                                               *)
(***************************************************************************)
\* percent_split_ticket[idx] = round(idx * 0.1, 1), in tenths.
percent_split_ticket(idx) == idx

\* The fraction passed on: 1 - percent.
straight_fraction_same(percent) == percent
straight_fraction(percent) == 10 - percent

\* avg_wait_time > target_wait_time (line 269).
exceeds_or_equals(avg_wait_time, target_wait_time) ==
    avg_wait_time.num >= target_wait_time * avg_wait_time.den
exceeds(avg_wait_time, target_wait_time) ==
    avg_wait_time.num > target_wait_time * avg_wait_time.den

\* avg_wait_time < target_wait_time (line 271).
below(avg_wait_time, target_wait_time) ==
    avg_wait_time.num < target_wait_time * avg_wait_time.den

(***************************************************************************)
(* The program state.                                                      *)
(*   mode      the entry point that was called                             *)
(*   precinct  the precinct dictionary                                     *)
(*   args      the arguments of the entry point                            *)
(*   pc, err   the position in the program and the exception raised        *)
(*   rng       the state of the module-level random generator              *)
(*   sim       the running (or last) call of Precinct.simulate             *)
(*   agg       the running (or last) call of find_avg_wait_time            *)
(*   srch      the running (or last) call of find_percent_split_ticket     *)
(*   out       the message printed by cmd                                  *)
(*   pool      a VotingBooths object driven directly by a caller, with    *)
(*             the Voter object, return value and exception of the last   *)
(*             call                                                        *)
(*   city      the Schelling simulation (src/pa2/schelling.py)             *)
(***************************************************************************)
VARIABLES mode, precinct, args, pc, err, rng, sim, agg, srch, out, pool, city

progvars == <<mode, precinct, args, pc, err, rng, sim, agg, srch, out>>

vars == <<mode, precinct, args, pc, err, rng, sim, agg, srch, out, pool, city>>

Modes == {"simulate", "find_avg_wait_time", "find_percent_split_ticket", "cmd"}

Precincts ==
    [hours_open : 0 .. MaxHours,
     max_num_voters : 0 .. MaxVoters,
     num_booths : 0 .. MaxBooths,
     straight_ticket_duration : StraightDurations]

NoSim == simulate_begin(0, 0, 0, 0)
NoAgg == [percent_straight_ticket |-> 0, ntrials |-> 0, seed |-> 0,
          trial |-> 0, avg_times |-> <<>>, result |-> NoneWait]
NoSrch == [target_wait_time |-> 0, ntrials |-> 0, seed |-> 0, idx |-> 0,
           percent_split |-> None, avg_wait_time |-> NoneWait,
           evals |-> <<>>, result |-> <<>>]

\* The other two subsystems at rest.
NoPool == [booths |-> VotingBooths(0), voter |-> Voter(0, 0), ret |-> None,
           err |-> "", op |-> ""]
NoCity == [pc |-> ""]

\* The generator before the first call of simulate: a state that no seed
\* of the model produces.
RngStart == {41}

Init ==
    /\ mode \in Modes
    /\ precinct \in Precincts
    /\ \E p \in Tenths, s \in 0 .. MaxSeed, n \in 1 .. MaxTrials, w \in 0 .. MaxTarget :
          args = [percent_straight_ticket |->
                      IF mode \in {"simulate", "find_avg_wait_time"} THEN p ELSE 0,
                  seed |-> s,
                  ntrials |->
                      IF mode \in {"find_avg_wait_time", "find_percent_split_ticket"}
                      THEN n ELSE 0,
                  target_wait_time |->
                      IF mode \in {"find_percent_split_ticket", "cmd"} THEN w ELSE 0]
    /\ pc = mode
    /\ err = ""
    /\ rng \in RngStart
    /\ sim = IF mode = "simulate"
             THEN [NoSim EXCEPT !.percent_straight_ticket = args.percent_straight_ticket,
                                !.straight_ticket_duration = precinct.straight_ticket_duration,
                                !.seed = args.seed]
             ELSE NoSim
    /\ agg = IF mode = "find_avg_wait_time"
             THEN [NoAgg EXCEPT !.percent_straight_ticket = args.percent_straight_ticket,
                                !.ntrials = args.ntrials, !.seed = args.seed]
             ELSE NoAgg
    /\ srch = IF mode = "find_percent_split_ticket"
              THEN [NoSrch EXCEPT !.target_wait_time = args.target_wait_time,
                                  !.ntrials = args.ntrials, !.seed = args.seed]
              ELSE NoSrch
    /\ out = ""
    /\ pool = NoPool
    /\ city = NoCity

(***************************************************************************)
(* Precinct.simulate                                                       *)
(***************************************************************************)
\* Lines 91-96: seed the generator, empty list, fresh booths, t = 0.
SimBegin ==
    /\ pc = "simulate"
    /\ rng' = seed_random(rng, sim.seed)
    /\ sim' = simulate_begin(sim.percent_straight_ticket,
                             sim.straight_ticket_duration, sim.seed,
                             precinct.num_booths)
    /\ pc' = "sim_loop"
    /\ UNCHANGED <<mode, precinct, args, err, agg, srch, out, pool, city>>

\* Lines 98-119: one pass of the loop.
SimIter ==
    /\ pc = "sim_loop"
    /\ LET r == simulate_iter(sim, rng, precinct)
       IN  /\ sim' = r.sim
           /\ rng' = r.rng
           /\ err' = r.err
           /\ pc' = CASE r.next = "loop" -> "sim_loop"
                      [] r.next = "return" -> "sim_return"
                      [] OTHER -> "done"
    /\ UNCHANGED <<mode, precinct, args, agg, srch, out, pool, city>>

\* Line 121: return voters, to find_avg_wait_time or to the caller.
SimReturn ==
    /\ pc = "sim_return"
    /\ pc' = IF mode = "simulate" THEN "done" ELSE "avg_trial"
    /\ UNCHANGED <<mode, precinct, args, err, rng, sim, agg, srch, out, pool, city>>

(***************************************************************************)
(* find_avg_wait_time                                                      *)
(***************************************************************************)
\* Lines 213-224: build the Precinct, seed = initial_seed, avg_times = [].
AvgBegin ==
    /\ pc = "find_avg_wait_time"
    /\ agg' = [agg EXCEPT !.trial = 0, !.avg_times = <<>>, !.result = NoneWait]
    /\ pc' = "avg_loop"
    /\ UNCHANGED <<mode, precinct, args, err, rng, sim, srch, out, pool, city>>

\* Lines 226-227 and 235-237: the next trial's call of simulate, or the
\* sort and the return of the median.
AvgLoop ==
    /\ pc = "avg_loop"
    /\ IF agg.trial < agg.ntrials
       THEN /\ sim' = [NoSim EXCEPT
                          !.percent_straight_ticket = agg.percent_straight_ticket,
                          !.straight_ticket_duration = precinct.straight_ticket_duration,
                          !.seed = agg.seed]
            /\ pc' = "simulate"
            /\ UNCHANGED <<agg, err>>
       ELSE /\ IF agg.ntrials \div 2 < Len(agg.avg_times)
               THEN /\ agg' = [agg EXCEPT
                                  !.result = median(sorted(agg.avg_times), agg.ntrials)]
                    /\ pc' = IF mode = "find_avg_wait_time"
                             THEN "done" ELSE "search_check"
                    /\ err' = err
               ELSE /\ err' = "IndexError"
                    /\ pc' = "done"
                    /\ agg' = agg
            /\ sim' = sim
    /\ UNCHANGED <<mode, precinct, args, rng, srch, out, pool, city>>

\* Lines 228-233: the trial's average, appended; seed += 1.
AvgTrial ==
    /\ pc = "avg_trial"
    /\ IF precinct.max_num_voters = 0
       THEN /\ err' = "ZeroDivisionError"
            /\ pc' = "done"
            /\ agg' = agg
       ELSE /\ agg' = [agg EXCEPT
                          !.avg_times = Append(@, trial_average(sim.voters,
                                                   precinct.max_num_voters)),
                          !.seed = @ + 1,
                          !.trial = @ + 1]
            /\ pc' = "avg_loop"
            /\ err' = err
    /\ UNCHANGED <<mode, precinct, args, rng, sim, srch, out, pool, city>>

(***************************************************************************)
(* find_percent_split_ticket                                               *)
(***************************************************************************)
\* Lines 263-264: the candidate list.
SearchBegin ==
    /\ pc = "find_percent_split_ticket"
    /\ srch' = [srch EXCEPT !.idx = 0, !.evals = <<>>, !.result = <<>>,
                            !.percent_split = None, !.avg_wait_time = NoneWait]
    /\ pc' = "search_loop"
    /\ UNCHANGED <<mode, precinct, args, err, rng, sim, agg, out, pool, city>>

\* Lines 266-268: the next candidate and its call of find_avg_wait_time;
\* line 274 when the candidates are exhausted.
SearchIter ==
    /\ pc = "search_loop"
    /\ IF srch.idx <= 10
       THEN LET percent == percent_split_ticket(srch.idx)
            IN  /\ srch' = [srch EXCEPT !.percent_split = percent]
                /\ agg' = [NoAgg EXCEPT
                              !.percent_straight_ticket = straight_fraction(percent),
                              !.ntrials = srch.ntrials,
                              !.seed = srch.seed]
                /\ pc' = "find_avg_wait_time"
       ELSE /\ srch' = [srch EXCEPT !.result = <<srch.percent_split, srch.avg_wait_time>>]
            /\ pc' = IF mode = "cmd" THEN "cmd_report" ELSE "done"
            /\ agg' = agg
    /\ UNCHANGED <<mode, precinct, args, err, rng, sim, out, pool, city>>

\* Lines 268-274: the comparison with the target.
SearchCheck ==
    /\ pc = "search_check"
    /\ LET avg_wait_time == agg.result
           percent == srch.percent_split
           evals == Append(srch.evals,
                           [percent |-> percent,
                            percent_straight_ticket |-> agg.percent_straight_ticket,
                            wait |-> avg_wait_time])
       IN  IF exceeds(avg_wait_time, srch.target_wait_time)
           THEN /\ srch' = [srch EXCEPT !.avg_wait_time = avg_wait_time,
                                        !.evals = evals,
                                        !.result = <<percent, avg_wait_time>>]
                /\ pc' = IF mode = "cmd" THEN "cmd_report" ELSE "done"
           ELSE /\ srch' = [srch EXCEPT
                               !.avg_wait_time =
                                   IF percent = 10
                                      /\ below(avg_wait_time, srch.target_wait_time)
                                   THEN NoneWait ELSE avg_wait_time,
                               !.evals = evals,
                               !.idx = @ + 1]
                /\ pc' = "search_loop"
    /\ UNCHANGED <<mode, precinct, args, err, rng, sim, agg, out, pool, city>>

(***************************************************************************)
(* cmd, with --target-wait-time                                            *)
(***************************************************************************)
\* Lines 327-329.
CmdCall ==
    /\ pc = "cmd"
    /\ srch' = [NoSrch EXCEPT !.target_wait_time = args.target_wait_time,
                              !.ntrials = CmdTrials, !.seed = args.seed]
    /\ pc' = "find_percent_split_ticket"
    /\ UNCHANGED <<mode, precinct, args, err, rng, sim, agg, out, pool, city>>

\* The message of lines 331-338.  Formatting None with {:.2f} raises.
report(percent, avg_wt) ==
    IF percent = 0
    THEN [out |-> "always below", err |-> ""]
    ELSE IF avg_wt = NoneWait
         THEN [out |-> "", err |-> "TypeError"]
         ELSE [out |-> "exceeds", err |-> ""]

CmdReport ==
    /\ pc = "cmd_report"
    /\ LET r == report(srch.result[1], srch.result[2])
       IN  /\ out' = r.out
           /\ err' = r.err
    /\ pc' = "done"
    /\ UNCHANGED <<mode, precinct, args, rng, sim, agg, srch, pool, city>>

Next ==
    \/ SimBegin
    \/ SimIter
    \/ SimReturn
    \/ AvgBegin
    \/ AvgLoop
    \/ AvgTrial
    \/ SearchBegin
    \/ SearchIter
    \/ SearchCheck
    \/ CmdCall
    \/ CmdReport

Spec == Init /\ [][Next]_vars

(***************************************************************************)
(* A VotingBooths object used on its own: any sequence of add_voter and    *)
(* remove_voter calls, on a pool of any booth count.                       *)
(***************************************************************************)
MaxTime == 2
MaxDuration == 2
\* The most entries the model lets an unbounded queue hold.
MaxHeld == 3

\* The program of the first specification, not running.
ProgramIdle ==
    /\ mode = "simulate"
    /\ precinct = [hours_open |-> 0, max_num_voters |-> 0, num_booths |-> 0,
                   straight_ticket_duration |-> 2]
    /\ args = [percent_straight_ticket |-> 0, seed |-> 0, ntrials |-> 0,
               target_wait_time |-> 0]
    /\ pc = "idle"
    /\ err = ""
    /\ rng = 0
    /\ sim = NoSim
    /\ agg = NoAgg
    /\ srch = NoSrch
    /\ out = ""

InitBooths ==
    /\ ProgramIdle
    /\ city = NoCity
    /\ \E num_booths \in 0 .. MaxBooths, a \in 0 .. MaxTime, d \in 1 .. MaxDuration :
          pool = [booths |-> VotingBooths(num_booths), voter |-> Voter(a, d),
                  ret |-> None, err |-> "", op |-> "__init__"]

\* Voter(arrival_time, voting_duration): the caller builds the next voter.
PoolNewVoter ==
    /\ \E a \in 0 .. MaxTime, d \in 1 .. MaxDuration :
          pool' = [pool EXCEPT !.voter = Voter(a, d), !.ret = None, !.err = "",
                               !.op = "Voter"]
    /\ UNCHANGED <<progvars, city>>

\* booths.add_voter(voter, start_time, voting_duration)
PoolAddVoter ==
    /\ is_full(pool.booths) \/ Len(pool.booths.pq) < MaxHeld
    /\ \E start_time \in 0 .. MaxTime, d \in 1 .. MaxDuration :
          LET r == add_voter(pool.booths, pool.voter, start_time, d)
          IN  pool' = [booths |-> r.booths, voter |-> r.voter, ret |-> None,
                       err |-> r.err, op |-> "add_voter"]
    /\ UNCHANGED <<progvars, city>>

\* booths.remove_voter()
PoolRemoveVoter ==
    /\ LET r == remove_voter(pool.booths)
       IN  pool' = [pool EXCEPT !.booths = r.booths, !.ret = r.departure_time,
                                !.err = r.err, !.op = "remove_voter"]
    /\ UNCHANGED <<progvars, city>>

NextBooths ==
    \/ PoolNewVoter
    \/ PoolAddVoter
    \/ PoolRemoveVoter

SpecBooths == InitBooths /\ [][NextBooths]_vars

(***************************************************************************)
(* Schelling model of housing segregation (src/pa2/schelling.py).          *)
(*                                                                         *)
(* The grid is a list of rows of "M", "B" and "F"; a location <<i, j>> is  *)
(* one-based.  The similarity bounds are per cent.                         *)
(***************************************************************************)
GridSize == 2
MaxOwners == 2
MaxPatience == 2
MaxSteps == 3
MaxCalls == 1

Radii == {1}
Ranges == {<<40, 70>>, <<60, 100>>}

Abs(n) == IF n < 0 THEN 0 - n ELSE n

Locations(grid) == (1 .. Len(grid)) \X (1 .. Len(grid))

At(grid, location) == grid[location[1]][location[2]]

\* The R-neighborhood of a location, the location included.
Neighborhood(grid, R, location) ==
    {l \in Locations(grid) :
        Abs(location[1] - l[1]) + Abs(location[2] - l[2]) <= R}

\* is_satisfied: lb <= S/H <= ub, S the similar homes and H the occupied
\* homes of the neighborhood.
is_satisfied(grid, R, location, sim_sat_range) ==
    LET S == Cardinality({l \in Neighborhood(grid, R, location) :
                             At(grid, l) = At(grid, location)})
        H == Cardinality({l \in Neighborhood(grid, R, location) :
                             At(grid, l) # "F"})
    IN  sim_sat_range[1] * H <= 100 * S /\ 100 * S <= sim_sat_range[2] * H

\* grid[x][y], grid[a][b] = grid[a][b], grid[x][y]
Swap(grid, location, home) ==
    [i \in 1 .. Len(grid) |->
        [j \in 1 .. Len(grid) |->
            IF <<i, j>> = location THEN At(grid, home)
            ELSE IF <<i, j>> = home THEN At(grid, location)
            ELSE grid[i][j]]]

\* list.remove(home): the first entry equal to home is dropped.
RECURSIVE ListRemove(_, _)
ListRemove(seq, home) ==
    IF seq = <<>> THEN <<>>
    ELSE IF Head(seq) = home THEN Tail(seq)
    ELSE <<Head(seq)>> \o ListRemove(Tail(seq), home)

\* The value of an expression, worked out once: The({e}) is e.
The(S) == CHOOSE v \in S : TRUE

\* One pass of the for loop of find_new_home (lines 97-115) for a home;
\* v holds the grid, the patience left, the list and the relocations.
find_new_home_iter(v, R, location, sim_sat_range, home) ==
    The({
        IF v.patience > 1
        THEN [v EXCEPT !.grid = Swap(swapped, location, home),
                       !.patience =
                           IF is_satisfied(swapped, R, home, sim_sat_range)
                           THEN @ - 1 ELSE @]
        ELSE IF v.patience = 1
        THEN IF is_satisfied(swapped, R, home, sim_sat_range)
             THEN [grid |-> swapped,
                   patience |-> v.patience - 1,
                   homes_for_sale |->
                       ListRemove(<<location>> \o v.homes_for_sale, home),
                   relocations |-> v.relocations + 1]
             ELSE [v EXCEPT !.grid = Swap(swapped, location, home)]
        ELSE [v EXCEPT !.grid = swapped]
        : swapped \in {Swap(v.grid, location, home)}})

\* find_new_home, lines 94-117: loop[k] is the state once k of the homes
\* for sale have been visited; the break of line 113 leaves it as it is.
find_new_home_loop(grid, R, location, patience, sim_sat_range, homes_for_sale) ==
    LET loop[k \in 0 .. Len(homes_for_sale)] ==
            IF k = 0
            THEN [grid |-> grid, patience |-> patience,
                  homes_for_sale |-> homes_for_sale, relocations |-> 0]
            ELSE The({IF v.relocations > 0 THEN v
                      ELSE find_new_home_iter(v, R, location, sim_sat_range,
                                              homes_for_sale[k])
                      : v \in {loop[k - 1]}})
    IN  The({[grid |-> v.grid, homes_for_sale |-> v.homes_for_sale,
              relocations |-> v.relocations]
             : v \in {loop[Len(homes_for_sale)]}})

find_new_home_first(grid, R, location, patience, sim_sat_range, homes_for_sale) ==
    find_new_home_loop(grid, R, location, 1, sim_sat_range, homes_for_sale)
find_new_home(grid, R, location, patience, sim_sat_range, homes_for_sale) ==
    find_new_home_loop(grid, R, location, patience, sim_sat_range, homes_for_sale)

\* The k-th location in the order of the nested loops of simulate_wave.
CellAt(grid, k) == <<((k - 1) \div Len(grid)) + 1, ((k - 1) % Len(grid)) + 1>>

\* The body of the loops of simulate_wave (lines 141-145) for a location.
simulate_wave_iter(v, R, patience, sim_sat_range, color, location) ==
    IF At(v.grid, location) = color
       /\ ~is_satisfied(v.grid, R, location, sim_sat_range)
    THEN The({[grid |-> r.grid, homes_for_sale |-> r.homes_for_sale,
               relocations |-> v.relocations + r.relocations]
              : r \in {find_new_home(v.grid, R, location, patience,
                                     sim_sat_range, v.homes_for_sale)}})
    ELSE v

\* simulate_wave, lines 138-147: wave[k] is the state once k locations have
\* been visited, row by row; relocations is the counter.
simulate_wave(grid, R, patience, sim_sat_range, homes_for_sale, color) ==
    LET wave[k \in 0 .. Len(grid) * Len(grid)] ==
            IF k = 0
            THEN [grid |-> grid, homes_for_sale |-> homes_for_sale,
                  relocations |-> 0]
            ELSE The({simulate_wave_iter(v, R, patience, sim_sat_range, color,
                                         CellAt(grid, k))
                      : v \in {wave[k - 1]}})
    IN  wave[Len(grid) * Len(grid)]

\* simulate_step: a maroon wave, then a blue wave.
simulate_step(grid, R, patience, sim_sat_range, homes_for_sale) ==
    The({The({[grid |-> b.grid, homes_for_sale |-> b.homes_for_sale,
               relocations |-> m.relocations + b.relocations]
              : b \in {simulate_wave(m.grid, R, patience, sim_sat_range,
                                     m.homes_for_sale, "B")}})
         : m \in {simulate_wave(grid, R, patience, sim_sat_range,
                                homes_for_sale, "M")}})

\* utility.find_homes_for_sale: the "F" cells in row order.
RECURSIVE find_homes_for_sale(_, _)
find_homes_for_sale(grid, k) ==
    IF k > Len(grid) * Len(grid) THEN <<>>
    ELSE (IF At(grid, CellAt(grid, k)) = "F" THEN <<CellAt(grid, k)>> ELSE <<>>)
         \o find_homes_for_sale(grid, k + 1)

Owners(grid) == {l \in Locations(grid) : At(grid, l) # "F"}

Grids ==
    {grid \in [1 .. GridSize -> [1 .. GridSize -> {"M", "B", "F"}]] :
        Cardinality(Owners(grid)) <= MaxOwners}

InitCity ==
    /\ ProgramIdle
    /\ pool = NoPool
    /\ \E grid \in Grids, R \in Radii, range \in Ranges,
          patience \in 0 .. MaxPatience, max_steps \in 0 .. MaxSteps :
          city = [pc |-> "idle", grid |-> grid,
                  homes_for_sale |-> find_homes_for_sale(grid, 1),
                  R |-> R, sim_sat_range |-> range, patience |-> patience,
                  max_steps |-> max_steps, calls |-> 0, location |-> <<0, 0>>,
                  relocations |-> 0, i |-> 0, total_relocations |-> 0,
                  counts |-> <<>>]

\* A call of find_new_home for a homeowner, lines 94-117.
CityFindNewHome ==
    /\ city.pc = "idle"
    /\ city.calls < MaxCalls
    /\ \E location \in Locations(city.grid) :
          /\ At(city.grid, location) # "F"
          /\ \E r \in {find_new_home(city.grid, city.R, location, city.patience,
                                      city.sim_sat_range, city.homes_for_sale)} :
                 city' = [city EXCEPT !.grid = r.grid,
                                      !.homes_for_sale = r.homes_for_sale,
                                      !.location = location,
                                      !.relocations = r.relocations,
                                      !.calls = @ + 1]
    /\ UNCHANGED <<progvars, pool>>

\* do_simulation is called: total_relocations = 0 (line 191).
CityDoSimulation ==
    /\ city.pc = "idle"
    /\ city' = [city EXCEPT !.pc = "do_simulation", !.i = 0,
                            !.total_relocations = 0, !.counts = <<>>]
    /\ UNCHANGED <<progvars, pool>>

\* One pass of the loop of lines 193-197, or its exhaustion.
CityStep_nobreak ==
    /\ city.pc = "do_simulation"
    /\ IF city.i >= city.max_steps
       THEN city' = [city EXCEPT !.pc = "return"]
       ELSE \E r \in {simulate_step(city.grid, city.R, city.patience,
                                     city.sim_sat_range, city.homes_for_sale)} :
               city' = [city EXCEPT
                            !.grid = r.grid,
                            !.homes_for_sale = r.homes_for_sale,
                            !.relocations = r.relocations,
                            !.counts = Append(@, r.relocations),
                            !.i = @ + 1,
                            !.total_relocations = @ + r.relocations]
    /\ UNCHANGED <<progvars, pool>>
CityStep ==
    /\ city.pc = "do_simulation"
    /\ IF city.i >= city.max_steps
       THEN city' = [city EXCEPT !.pc = "return"]
       ELSE \E r \in {simulate_step(city.grid, city.R, city.patience,
                                     city.sim_sat_range, city.homes_for_sale)} :
               city' = [city EXCEPT
                            !.grid = r.grid,
                            !.homes_for_sale = r.homes_for_sale,
                            !.relocations = r.relocations,
                            !.counts = Append(@, r.relocations),
                            !.i = @ + 1,
                            !.total_relocations = @ + r.relocations,
                            !.pc = IF r.relocations = 0 THEN "return"
                                   ELSE "do_simulation"]
    /\ UNCHANGED <<progvars, pool>>

\* return total_relocations (line 199).
CityReturn ==
    /\ city.pc = "return"
    /\ city' = [city EXCEPT !.pc = "done"]
    /\ UNCHANGED <<progvars, pool>>

NextCity ==
    \/ CityDoSimulation
    \/ CityStep
    \/ CityReturn

SpecCity == InitCity /\ [][NextCity]_vars

\* find_new_home called on its own, do_simulation left out.
InitHome == InitCity /\ city.max_steps = 0

NextHome == CityFindNewHome

SpecHome == InitHome /\ [][NextHome]_vars

\* A call of simulate_wave for a color, lines 138-147.
CitySimulateWave ==
    /\ city.pc = "idle"
    /\ city.calls < MaxCalls
    /\ \E color \in {"M", "B"} :
          \E r \in {simulate_wave(city.grid, city.R, city.patience,
                                  city.sim_sat_range, city.homes_for_sale,
                                  color)} :
             city' = [city EXCEPT !.grid = r.grid,
                                  !.homes_for_sale = r.homes_for_sale,
                                  !.location = <<0, 0>>,
                                  !.relocations = r.relocations,
                                  !.calls = @ + 1]
    /\ UNCHANGED <<progvars, pool>>

\* A call of simulate_step, lines 165-171.
CitySimulateStep ==
    /\ city.pc = "idle"
    /\ city.calls < MaxCalls
    /\ \E r \in {simulate_step(city.grid, city.R, city.patience,
                               city.sim_sat_range, city.homes_for_sale)} :
          city' = [city EXCEPT !.grid = r.grid,
                               !.homes_for_sale = r.homes_for_sale,
                               !.location = <<0, 0>>,
                               !.relocations = r.relocations,
                               !.calls = @ + 1]
    /\ UNCHANGED <<progvars, pool>>

\* find_new_home, simulate_wave and simulate_step called in any order.
NextCalls ==
    \/ CityFindNewHome
    \/ CitySimulateWave
    \/ CitySimulateStep

SpecCalls == InitHome /\ [][NextCalls]_vars

\* do_simulation runs on without being suspended: weak fairness of CityStep
\* and of CityReturn, each written out as <>[]ENABLED <<A>>_vars =>
\* []<><<A>>_vars with the value of city.pc that enables the action.
FairCity ==
    /\ SpecCity
    /\ <>[](city.pc = "do_simulation") => []<><<CityStep>>_vars
    /\ <>[](city.pc = "return") => []<><<CityReturn>>_vars

(***************************************************************************)
(* Properties.                                                             *)
(***************************************************************************)
minutes_open == precinct.hours_open * MinutesPerHour

SimReturned == pc = "sim_return"

\* The configurations of the error taxonomy that the model can express (the
\* rates are positive throughout).
InvalidConfiguration == precinct.num_booths = 0 \/ precinct.max_num_voters = 0

\* The arrival time of the k-th draw of the running call: the sum of the
\* first k gaps.
RECURSIVE ArrivalOf(_, _)
ArrivalOf(drawn, k) == IF k = 0 THEN 0 ELSE ArrivalOf(drawn, k - 1) + drawn[k].gap

\* C1: in the list built and returned by Precinct.simulate every voter has
\* both times set, arrives strictly after the preceding voter, starts no
\* earlier than the arrival, and departs at start_time + voting_duration.
C1_VoterTimes ==
    \A k \in 1 .. Len(sim.voters) :
        LET v == sim.voters[k]
        IN  /\ v.start_time # None
            /\ v.departure_time # None
            /\ v.start_time >= v.arrival_time
            /\ v.departure_time = v.start_time + v.voting_duration
            /\ k > 1 => v.arrival_time > sim.voters[k - 1].arrival_time

C1_Witness ==
    /\ SimReturned
    /\ Len(sim.voters) >= 2
    /\ \E k \in 1 .. Len(sim.voters) :
          sim.voters[k].start_time > sim.voters[k].arrival_time

\* C2: the list returned by Precinct.simulate is the generated arrival
\* stream cut before the first arrival at or after closing time and capped
\* at max_num_voters; a voter who arrived before closing stays in the list
\* whatever the departure time.
C2_ReturnedPrefix ==
    SimReturned =>
        LET n == Len(sim.voters)
            d == Len(sim.drawn)
        IN  /\ n <= precinct.max_num_voters
            /\ \A k \in 1 .. n :
                  /\ sim.voters[k].arrival_time = ArrivalOf(sim.drawn, k)
                  /\ sim.voters[k].voting_duration = sim.drawn[k].voting_duration
                  /\ sim.voters[k].arrival_time < minutes_open
            /\ \/ d = n /\ n = precinct.max_num_voters
               \/ d = n + 1 /\ ArrivalOf(sim.drawn, d) >= minutes_open

C2_Witness ==
    /\ SimReturned
    /\ Len(sim.drawn) = Len(sim.voters) + 1
    /\ \E k \in 1 .. Len(sim.voters) :
          sim.voters[k].departure_time > minutes_open

SearchReturned == srch.result # <<>>

Exceeding(e) == e.wait.num > srch.target_wait_time * e.wait.den

\* C3: find_percent_split_ticket evaluates the candidates 0.0, 0.1, ... in
\* ascending order with percent_straight_ticket = 1 - p, stops at the first
\* whose wait is strictly above the target and returns it with that wait;
\* a wait above the target at 0.0 is returned after a single evaluation.
C3_FirstExceeding ==
    SearchReturned =>
        LET n == Len(srch.evals)
        IN  /\ n >= 1
            /\ \A j \in 1 .. n :
                  /\ srch.evals[j].percent = j - 1
                  /\ srch.evals[j].percent_straight_ticket = 10 - (j - 1)
            /\ \A j \in 1 .. n - 1 : ~Exceeding(srch.evals[j])
            /\ Exceeding(srch.evals[n]) =>
                  srch.result = <<srch.evals[n].percent, srch.evals[n].wait>>
            /\ ~Exceeding(srch.evals[n]) => n = 11
            /\ Exceeding(srch.evals[1]) => n = 1 /\ srch.result[1] = 0

C3_Witness ==
    /\ SearchReturned
    /\ Len(srch.evals) >= 2
    /\ Exceeding(srch.evals[Len(srch.evals)])

C3_WitnessAtZero ==
    /\ SearchReturned
    /\ Len(srch.evals) = 1
    /\ Exceeding(srch.evals[1])

Infeasible == \A j \in 1 .. Len(srch.evals) : ~Exceeding(srch.evals[j])

\* C4: find_percent_split_ticket returns the infeasible outcome (a wait of
\* None) exactly when no candidate has a wait strictly above the target,
\* the wait at 1.0 being equal to the target included.
C4_InfeasibleIffNoneExceeds ==
    (SearchReturned /\ ~InvalidConfiguration) =>
        (srch.result[2] = NoneWait <=> Infeasible)

\* C5: with a target wait time, cmd prints 'Waiting times are always
\* below' exactly when the search was infeasible, and after a target
\* exceeded at 0.0 it prints the 'exceeds' message.
C5_AlwaysBelowIffInfeasible ==
    (mode = "cmd" /\ pc = "done" /\ SearchReturned /\ ~InvalidConfiguration) =>
        /\ out = "always below" <=> Infeasible
        /\ ~Infeasible => out = "exceeds"

TrialDone == pc = "avg_loop" /\ agg.trial > 0

\* C6: each trial's average is the sum of the waits of the voters returned
\* by the trial's simulate call divided by the number of those voters.
C6_AverageOverServed ==
    (TrialDone /\ Len(sim.voters) > 0) =>
        LET a == agg.avg_times[agg.trial]
        IN  a.num * Len(sim.voters) = total_wait(sim.voters) * a.den

AvgReturned == agg.result # NoneWait

\* r is the k-th smallest element of seq.
KthSmallest(seq, k, r) ==
    /\ \E j \in 1 .. Len(seq) : seq[j] = r
    /\ Cardinality({j \in 1 .. Len(seq) : RatLess(seq[j], r)}) < k
    /\ Cardinality({j \in 1 .. Len(seq) : ~RatLess(r, seq[j])}) >= k

C8_NoVotersServed ==
    ~InvalidConfiguration =>
        /\ err # "ZeroDivisionError"
        /\ (TrialDone /\ sim.voters = <<>>) => err = "no voters served"

\* Precinct.simulate run on its own: seeded from a fresh generator and
\* iterated to its return.
RECURSIVE RunToReturn(_, _, _)
RunToReturn(s, r, p) ==
    LET x == simulate_iter(s, r, p)
    IN  IF x.next = "loop" THEN RunToReturn(x.sim, x.rng, p) ELSE x.sim.voters

IsolatedSimulate(p, percent_straight_ticket, straight_ticket_duration, seed) ==
    RunToReturn(simulate_begin(percent_straight_ticket, straight_ticket_duration,
                               seed, p.num_booths),
                (21 * seed + 7) % 64, p)

InitialSeed == IF mode = "find_avg_wait_time" THEN args.seed ELSE srch.seed

\* C9: whatever was simulated before, a call of Precinct.simulate returns
\* the voters that the same call returns on its own, and trial i of
\* find_avg_wait_time is the call with seed initial_seed + i.
C9_Deterministic ==
    SimReturned =>
        /\ sim.voters = IsolatedSimulate(precinct, sim.percent_straight_ticket,
                                         sim.straight_ticket_duration, sim.seed)
        /\ mode # "simulate" => sim.seed = InitialSeed + agg.trial

C9_Witness ==
    /\ SimReturned
    /\ agg.trial >= 1
    /\ Len(sim.voters) >= 2

\* C10: a precinct with no booth or a voter cap of zero is rejected as an
\* InvalidConfiguration before any random draw or booth operation.
C10_RejectedBeforeSimulation ==
    InvalidConfiguration =>
        /\ sim.drawn = <<>>
        /\ sim.booths.pq = <<>>
        /\ pc = "done" => err = "InvalidConfiguration"

\* C11: a VotingBooths object built with booth count C never holds more
\* than C departure times, whatever add_voter and remove_voter calls are
\* made on it, those of Precinct.simulate included.
C11_OccupancyWithinCount ==
    /\ Len(pool.booths.pq) <= pool.booths.maxsize
    /\ Len(sim.booths.pq) <= sim.booths.maxsize

\* C12: with num_booths >= max_num_voters every voter of Precinct.simulate
\* starts at the arrival time.
C12_NoContentionNoWait ==
    precinct.num_booths >= precinct.max_num_voters =>
        \A k \in 1 .. Len(sim.voters) :
            sim.voters[k].start_time = sim.voters[k].arrival_time

C12_Witness ==
    /\ SimReturned
    /\ precinct.num_booths >= precinct.max_num_voters
    /\ Len(sim.voters) >= 2
    /\ sim.voters[2].arrival_time < sim.voters[1].departure_time

\* C13: every straight-ticket voter of Precinct.simulate votes for the
\* straight_ticket_duration passed to simulate.
C13_StraightTicketDuration ==
    ~InvalidConfiguration => \A k \in 1 .. Len(sim.voters) :
        sim.drawn[k].straight =>
            sim.voters[k].voting_duration = sim.straight_ticket_duration

\* C14: an infeasible target makes find_percent_split_ticket return
\* (0, None).
C14_InfeasibleReturnsZeroNone ==
    (SearchReturned /\ Infeasible /\ ~InvalidConfiguration) =>
        srch.result = <<0, NoneWait>>

\* The number of entries of seq equal to x.
Count(seq, x) == Cardinality({j \in 1 .. Len(seq) : seq[j] = x})

Entries(seq) == {seq[j] : j \in 1 .. Len(seq)}

Smallest(seq) == CHOOSE x \in Entries(seq) : \A y \in Entries(seq) : x <= y

\* after holds the entries of before, less one copy of each of removed,
\* plus one copy of each of added.
Replaced(before, after, removed, added) ==
    \A x \in Entries(before) \cup Entries(after) \cup removed \cup added :
        Count(after, x) + (IF x \in removed THEN 1 ELSE 0)
            = Count(before, x) + (IF x \in added THEN 1 ELSE 0)

\* C17: with at least one booth, a voter arriving while a booth is free
\* starts at the arrival time; with every booth in use the smallest
\* departure time d held leaves the pool and the voter starts at d if
\* d > arrival_time, else at the arrival time.
C17_StartTime ==
    [][(pc = "sim_loop" /\ precinct.num_booths >= 1
        /\ Len(sim'.voters) = Len(sim.voters) + 1) =>
          LET v == sim'.voters[Len(sim'.voters)]
              held == sim.booths.pq
          IN  IF Len(held) < precinct.num_booths
              THEN /\ v.start_time = v.arrival_time
                   /\ Replaced(held, sim'.booths.pq, {}, {v.departure_time})
              ELSE LET d == Smallest(held)
                   IN  /\ v.start_time = IF d > v.arrival_time
                                         THEN d ELSE v.arrival_time
                       /\ Len(sim'.booths.pq) = Len(held)
                       /\ Replaced(held, sim'.booths.pq, {d}, {v.departure_time})
      ]_vars

C17_Witness ==
    /\ SimReturned
    /\ precinct.num_booths >= 1
    /\ \E k \in precinct.num_booths + 1 .. Len(sim.voters) :
          sim.voters[k].start_time > sim.voters[k].arrival_time
    /\ \E k \in precinct.num_booths + 1 .. Len(sim.voters) :
          sim.voters[k].start_time = sim.voters[k].arrival_time

\* C18: no run of Precinct.simulate raises queue.Full or queue.Empty:
\* add_voter is never called on a full pool, remove_voter never on an
\* empty one.
C18_NoOverflowNoUnderflow ==
    /\ err # "queue.Full"
    /\ err # "queue.Empty"
    /\ precinct.num_booths >= 1 => Len(sim.booths.pq) <= precinct.num_booths

C18_Witness ==
    /\ SimReturned
    /\ err = ""
    /\ precinct.num_booths >= 1
    /\ Len(sim.voters) > precinct.num_booths

\* C19: add_voter on a pool at capacity fails and changes neither the pool
\* nor the voter's start_time and departure_time; below capacity it
\* inserts the voter's departure time and succeeds.
C19_FullAddNoMutation ==
    [][pool'.op = "add_voter" =>
          IF is_full(pool.booths)
          THEN /\ pool'.err = "queue.Full"
               /\ pool'.booths = pool.booths
               /\ pool'.voter.start_time = pool.voter.start_time
               /\ pool'.voter.departure_time = pool.voter.departure_time
          ELSE /\ pool'.err = ""
               /\ Replaced(pool.booths.pq, pool'.booths.pq, {},
                           {pool'.voter.departure_time})
      ]_vars

\* C20: remove_voter on a non-empty pool returns the smallest departure
\* time held and removes one copy of it, leaving the other entries; on an
\* empty pool it raises queue.Empty at once and the pool stays empty.
C20_RemoveSmallest ==
    [][pool'.op = "remove_voter" =>
          IF pool.booths.pq = <<>>
          THEN /\ pool'.err = "queue.Empty"
               /\ pool'.booths.pq = <<>>
          ELSE /\ pool'.err = ""
               /\ pool'.ret = Smallest(pool.booths.pq)
               /\ Len(pool'.booths.pq) = Len(pool.booths.pq) - 1
               /\ Replaced(pool.booths.pq, pool'.booths.pq, {pool'.ret}, {})
      ]_vars

C20_Witness ==
    /\ pool.op = "remove_voter"
    /\ pool.err = ""
    /\ Len(pool.booths.pq) >= 2
    /\ pool.ret = pool.booths.pq[1]

(***************************************************************************)
(* Schelling model: find_new_home and do_simulation.                       *)
(***************************************************************************)

\* The homes for sale, in list order, where the homeowner of the location
\* would be satisfied once moved there, the old home then being for sale.
SatisfactoryHomes(c, location) ==
    SelectSeq(c.homes_for_sale,
              LAMBDA home : is_satisfied(Swap(c.grid, location, home), c.R,
                                         home, c.sim_sat_range))

\* homes_for_sale lists exactly the "F" cells, each once.
ForSaleListed(c) ==
    /\ {c.homes_for_sale[k] : k \in 1 .. Len(c.homes_for_sale)}
           = Locations(c.grid) \ Owners(c.grid)
    /\ Len(c.homes_for_sale) = Cardinality(Locations(c.grid) \ Owners(c.grid))

FindNewHomeCalled == city'.calls = city.calls + 1

\* C15: a call of find_new_home with patience P >= 1 moves the homeowner to
\* the P-th home for sale, in list order, where they would be satisfied, and
\* returns 1 relocation; with fewer than P satisfactory homes the grid and
\* homes_for_sale are as before the call and 0 relocations are returned.
C15_PatientRelocation ==
    [][(FindNewHomeCalled /\ city.patience >= 1 /\ ForSaleListed(city)) =>
        LET location == city'.location
            sat == SatisfactoryHomes(city, location)
            P == city.patience
        IN  IF Len(sat) >= P
            THEN /\ city'.relocations = 1
                 /\ \A l \in Locations(city.grid) :
                       At(city'.grid, l) =
                           IF l = location THEN "F"
                           ELSE IF l = sat[P] THEN At(city.grid, location)
                           ELSE At(city.grid, l)
                 /\ ForSaleListed(city')
            ELSE /\ city'.relocations = 0
                 /\ city'.grid = city.grid
                 /\ city'.homes_for_sale = city.homes_for_sale]_vars

\* A homeowner with patience 2 has passed over a first satisfactory home and
\* moved to the second one.
C15_Witness ==
    /\ city.calls = 1
    /\ city.patience = 2
    /\ city.relocations = 1
    /\ At(city.grid, city.location) = "F"
    /\ Head(city.homes_for_sale) = city.location

RECURSIVE Sum(_)
Sum(seq) == IF seq = <<>> THEN 0 ELSE Head(seq) + Sum(Tail(seq))

InDoSimulation == city.pc \in {"do_simulation", "return", "done"}

\* C16: do_simulation terminates; it runs at most max_steps steps, runs no
\* step after one in which nobody relocated, stops only for one of these two
\* reasons, and returns the relocations of all the steps it ran.
C16_Terminates ==
    /\ (city.pc = "do_simulation") ~> (city.pc = "done")
    /\ [](InDoSimulation =>
            /\ city.i = Len(city.counts)
            /\ city.i <= city.max_steps
            /\ \A k \in 1 .. Len(city.counts) - 1 : city.counts[k] > 0
            /\ city.total_relocations = Sum(city.counts)
            /\ city.pc = "do_simulation" /\ city.i > 0
                  => city.counts[city.i] > 0
            /\ city.pc = "done"
                  => \/ city.i = city.max_steps
                     \/ city.i > 0 /\ city.counts[city.i] = 0)

\* A simulation that relocated homeowners in its first step, found nobody
\* to relocate in its second and returned before max_steps.
C16_Witness ==
    /\ city.pc = "done"
    /\ city.i = 2
    /\ city.max_steps = 3
    /\ city.counts[1] > 0
    /\ city.counts[2] = 0

\* A simulation stopped by max_steps while homeowners were still relocating.
C16_WitnessExhausted ==
    /\ city.pc = "done"
    /\ city.i = city.max_steps
    /\ city.i >= 1
    /\ city.counts[city.i] > 0


\* The cells of a color.
Colored(grid, color) == {l \in Locations(grid) : At(grid, l) = color}

\* The cells whose content differs between two grids.
ChangedCells(before, after) ==
    {l \in Locations(before) : At(before, l) # At(after, l)}

\* What a call of find_new_home, simulate_wave or simulate_step on a state
\* whose homes_for_sale lists exactly the "F" cells is to preserve: the
\* numbers of "M", "B" and "F" cells and the listing of the "F" cells, with
\* a returned count that accounts for the homeowners whose cell changed (no
\* cell changes when 0 is returned, and a relocation changes two cells).
CallConserves ==
    (city'.calls = city.calls + 1 /\ ForSaleListed(city)) =>
        /\ \A color \in {"M", "B", "F"} :
              Cardinality(Colored(city'.grid, color))
                  = Cardinality(Colored(city.grid, color))
        /\ ForSaleListed(city')
        /\ city'.relocations = 0 => city'.grid = city.grid
        /\ Cardinality(ChangedCells(city.grid, city'.grid))
               <= 2 * city'.relocations

\* C21: for every patience >= 0, every call of find_new_home, simulate_wave
\* or simulate_step keeps the numbers of "M", "B" and "F" cells, leaves
\* homes_for_sale listing exactly the "F" cells without duplicates, and
\* returns the number of homeowners whose cell changed.
C21_Conservation == [][city.patience >= 0 => CallConserves]_vars

\* The calls with patience >= 1 do conserve.
C21_ConservationPatient == [][city.patience >= 1 => CallConserves]_vars

=============================================================================
